---- MODULE Spec2Model ----
(***************************************************************************)
(* AudioEngine (src/src/audio_engine.py): the capture / conditioning /     *)
(* synthesis pipeline of proceso_completo, as a state machine.  One state  *)
(* holds the engine's fields, the locals of the run in progress, the open  *)
(* sounddevice streams, and the run's observable events (status calls,     *)
(* countdown cues, stage starts and ends).                                 *)
(*                                                                         *)
(* Durations are counted in ticks of 1/TicksPerSecond s so that the float  *)
(* arithmetic of grabar_audio (duracion + 0.5) * fs and its int()          *)
(* truncation are exact integer computations.  Sample buffers are records  *)
(* [run, len]: the run that allocated the array and its length.            *)
(***************************************************************************)
EXTENDS Integers, Sequences, FiniteSets, TLC

\* ------------------------------------------------------------ bounds
\* Number of calls of proceso_completo made on the one engine instance.
MaxRuns == 2
\* Number of clicks on the record button.
MaxClicks == 3

\* ------------------------------------------------------------ program constants
fs == 8000
TicksPerSecond == 2 * fs
\* self.preroll_duration = 0.5 (seconds), in ticks
preroll_duration == TicksPerSecond \div 2
\* butter(3, ...): filter order; filtfilt pads 3 * max(len(a), len(b)) samples
butter_order == 3
padlen == 3 * (butter_order + 1)
\* range(3, 0, -1)
CountdownFrom == 3

\* Requested durations (ticks) the caller passes: float(entry or 3) accepts
\* any number, negative ones included.  -1 s, just under -0.5 s, -0.5 s, 0,
\* one tick, 1 s plus a tick, 3 s.
Durations ==
    { -TicksPerSecond, -(preroll_duration + 1), -preroll_duration, 0, 1,
      TicksPerSecond + 1, 3 * TicksPerSecond }

\* Exceptions the stages raise; all are subclasses of Exception.
ExceptionClasses ==
    { "PortAudioError", "ValueError", "IndexError", "OSError", "ParameterError",
      "RequestError" }

NoneBuf == [run |-> 0, len |-> -1]
NoText == "None"

\* int(x) of Python for x = num / den, den > 0: truncation toward zero.
IntTrunc(num, den) ==
    IF num >= 0 THEN num \div den ELSE -((-num) \div den)

VARIABLES
    pc,                       \* position of the worker inside proceso_completo
    run,                      \* number of calls of proceso_completo so far
    duracion,                 \* argument of the current call (ticks)
    i,                        \* loop variable of cuenta_regresiva
    is_recording,             \* self.is_recording
    current_audio_processed,  \* self.current_audio_processed
    streams,                  \* sounddevice streams currently open
    audio_raw,                \* local of proceso_completo
    audio_procesado,          \* local of proceso_completo
    duracion_real,            \* local: len(y) / fs, in ticks
    inicio_ms,                \* local: index[0] / fs * 1000
    trim_len,                 \* len(y) after librosa.effects.trim, -1 before
    recognizer,               \* what the recognizer did in this run
    texto,                    \* local of proceso_completo
    audio_synth,              \* local of proceso_completo
    written,                  \* files written by the current run
    status_events,            \* calls of _update_status in the current run
    cd_trace,                 \* events of cuenta_regresiva in the current run
    stages,                   \* stage starts / ends / failures of the run
    exc,                      \* exception raised in the current run
    result,                   \* <<>> or <<value returned by the call>>
    escaped,                  \* an exception left proceso_completo
    y,                        \* procesar_audio: the trimmed signal
    y_preemph,                \* procesar_audio: after the pre-emphasis
    y_norm,                   \* procesar_audio: after the normalisation
    dsp_pc,                   \* position inside steps 4 and 5 of procesar_audio
    btn,                      \* SintetizadorApp.btn_grabar: state, text, fg_color
    after_queue,              \* callbacks queued with self.after(0, ...)
    wpc,                      \* position of each worker thread
    wk,                       \* status callbacks each worker's run has made
    nworkers,                 \* worker threads started so far
    clicks,                   \* clicks on the record button so far
    last_click,               \* what the last click did
    applied                   \* callbacks applied to the button, in order

\* the engine's fields, the run in progress and its observable events
engineVars ==
    << pc, run, duracion, i, is_recording, current_audio_processed, streams,
       audio_raw, audio_procesado, duracion_real, inicio_ms, trim_len,
       recognizer, texto, audio_synth, written, status_events, cd_trace,
       stages, exc, result, escaped >>

\* the numeric chain of procesar_audio, checked on sample values
dspVars == << y, y_preemph, y_norm, dsp_pc >>

\* the window's record button, the Tk event loop and the worker threads
uiVars ==
    << btn, after_queue, wpc, wk, nworkers, clicks, last_click, applied >>

\* everything an action of proceso_completo leaves alone
nonEngineVars == << dspVars, uiVars >>

vars == << engineVars, nonEngineVars >>

\* the locals of the run in progress
locals ==
    << audio_raw, audio_procesado, duracion_real, inicio_ms, trim_len,
       recognizer, texto, audio_synth >>

EngineInit ==
    /\ pc = "idle"
    /\ run = 0
    /\ duracion = 0
    /\ i = 0
    /\ is_recording = FALSE
    /\ current_audio_processed = NoneBuf
    /\ streams = {}
    /\ audio_raw = NoneBuf
    /\ audio_procesado = NoneBuf
    /\ duracion_real = 0
    /\ inicio_ms = 0
    /\ trim_len = -1
    /\ recognizer = "pending"
    /\ texto = NoText
    /\ audio_synth = NoneBuf
    /\ written = {}
    /\ status_events = <<>>
    /\ cd_trace = <<>>
    /\ stages = <<>>
    /\ exc = "none"
    /\ result = <<>>
    /\ escaped = FALSE

\* no signal is being conditioned sample by sample
DspOff ==
    /\ y = <<>>
    /\ y_preemph = <<>>
    /\ y_norm = <<>>
    /\ dsp_pc = "off"

\* the record button as _crear_panel_control builds it
OriginalButton ==
    [state |-> "normal", text |-> "GRABAR Y SINTETIZAR", fg_color |-> "#007AFF"]

Workers == 1..MaxClicks

\* a callback handed to self.after(0, ...): a log line, a button update of
\* worker w's status callback, the redraw of the graphs, the restore of the
\* button
Callback(kind, w, color, text) ==
    [kind |-> kind, w |-> w, color |-> color, text |-> text]

\* the window after construction: the first log line is queued, no worker
\* has been started
UiInit ==
    /\ btn = OriginalButton
    /\ after_queue = << Callback("log", 0, "", "") >>
    /\ wpc = [w \in Workers |-> "unborn"]
    /\ wk = [w \in Workers |-> 0]
    /\ nworkers = 0
    /\ clicks = 0
    /\ last_click = "none"
    /\ applied = <<>>

Init == EngineInit /\ DspOff /\ UiInit

\* ------------------------------------------------------------ events
StageEv(s, e) == [stage |-> s, ev |-> e]

\* _update_status(status, color, text)
StatusCall(status, color, text) ==
    [status |-> status, color |-> color, text |-> text]

PreparandoText(n) ==
    CASE n = 3 -> "PREPARANDO... 3"
      [] n = 2 -> "PREPARANDO... 2"
      [] n = 1 -> "PREPARANDO... 1"
      [] OTHER -> "PREPARANDO..."

\* an event of cuenta_regresiva: a status call, a tone started (sd.play
\* returned), a tone played to its end (sd.wait returned), a timed wait
CdEv(e, phase, n, hz, ms) ==
    [ev |-> e, phase |-> phase, n |-> n, hz |-> hz, ms |-> ms]

\* a stage raises e: the stage whose start is the last entry of log fails and
\* control goes to the except clause of proceso_completo
Raise(e, log) ==
    /\ pc' = "except"
    /\ exc' = e
    /\ stages' = Append(log, StageEv(log[Len(log)].stage, "fail"))

Started(s) == Append(stages, StageEv(s, "start"))
Ended(s, log) == Append(log, StageEv(s, "end"))

\* ------------------------------------------------------------ proceso_completo
\* The call: the paths are computed and the try block is entered.
Call(d) ==
    /\ pc = "idle"
    /\ run < MaxRuns
    /\ run' = run + 1
    /\ duracion' = d
    /\ pc' = "warmup"
    /\ i' = 0
    /\ audio_raw' = NoneBuf
    /\ audio_procesado' = NoneBuf
    /\ duracion_real' = 0
    /\ inicio_ms' = 0
    /\ trim_len' = -1
    /\ recognizer' = "pending"
    /\ texto' = NoText
    /\ audio_synth' = NoneBuf
    /\ written' = {}
    /\ status_events' = <<>>
    /\ cd_trace' = <<>>
    /\ stages' = <<>>
    /\ exc' = "none"
    /\ result' = <<>>
    /\ UNCHANGED << is_recording, current_audio_processed, streams, escaped >>
    /\ UNCHANGED nonEngineVars

\* warmup_audio_buffer, entering the with block: sd.InputStream(...) opens the
\* capture stream or raises.
WarmupOpen ==
    /\ pc = "warmup"
    /\ \E ok \in BOOLEAN :
         IF ok
         THEN /\ streams' = streams \cup {"warmup"}
              /\ stages' = Started("warmup")
              /\ pc' = "warmup_wait"
              /\ UNCHANGED exc
         ELSE /\ Raise("PortAudioError", Started("warmup"))
              /\ UNCHANGED streams
    /\ UNCHANGED << run, duracion, i, is_recording, current_audio_processed,
                    locals, written, status_events, cd_trace, result, escaped >>
    /\ UNCHANGED nonEngineVars

\* the body of the with block (the 300 ms wait) and the block's exit: the
\* stream is closed whether the body ends or raises.
WarmupWait ==
    /\ pc = "warmup_wait"
    /\ streams' = streams \ {"warmup"}
    /\ \E ok \in BOOLEAN :
         IF ok
         THEN /\ stages' = Ended("warmup", stages)
              /\ pc' = "cd_visual"
              /\ i' = CountdownFrom
              /\ UNCHANGED exc
         ELSE /\ Raise("PortAudioError", stages)
              /\ UNCHANGED i
    /\ UNCHANGED << run, duracion, is_recording, current_audio_processed,
                    locals, written, status_events, cd_trace, result, escaped >>
    /\ UNCHANGED nonEngineVars

\* ------------------------------------------------------------ cuenta_regresiva
\* the same label on every tick
CdPreparando_noCount(n) ==
    StatusCall("preparing", "#FF9500", PreparandoText(0))

\* FASE 1, one iteration: the status call and the 0.8 s wait.
CdPreparando(n) ==
    StatusCall("preparing", "#FF9500", PreparandoText(n))

CountdownVisual ==
    /\ pc = "cd_visual"
    /\ status_events' = Append(status_events, CdPreparando(i))
    /\ cd_trace' = cd_trace \o
         << CdEv("status", "preparing", i, 0, 0), CdEv("wait", "", 0, 0, 800) >>
    /\ stages' = IF i = CountdownFrom THEN Started("countdown") ELSE stages
    /\ IF i > 1
       THEN /\ i' = i - 1
            /\ pc' = "cd_visual"
       ELSE /\ i' = CountdownFrom
            /\ pc' = "cd_beep"
    /\ UNCHANGED << run, duracion, is_recording, current_audio_processed,
                    streams, locals, written, exc, result, escaped >>
    /\ UNCHANGED nonEngineVars

\* A tone: sd.play opens a playback stream or raises; sd.wait blocks until
\* the tone has been played and closes the stream.
Tone(hz, ms) ==
    << CdEv("play", "", 0, hz, ms), CdEv("played", "", 0, hz, ms) >>

\* FASE 2 without sd.wait(): the 0.6 s wait starts while the tone plays
CountdownBeep_noWait ==
    /\ pc = "cd_beep"
    /\ \E ok \in BOOLEAN :
         IF ok
         THEN /\ cd_trace' = cd_trace
                   \o << CdEv("play", "", 0, 600, 150), CdEv("wait", "", 0, 0, 600) >>
              /\ IF i > 1
                 THEN /\ i' = i - 1
                      /\ pc' = "cd_beep"
                 ELSE /\ i' = 0
                      /\ pc' = "cd_start"
              /\ UNCHANGED << exc, stages >>
         ELSE /\ Raise("PortAudioError", stages)
              /\ UNCHANGED << cd_trace, i >>
    /\ UNCHANGED << run, duracion, is_recording, current_audio_processed,
                    streams, locals, written, status_events, result, escaped >>
    /\ UNCHANGED nonEngineVars

\* FASE 2, one iteration: generar_beep(600), sd.play, sd.wait, 0.6 s wait.
CountdownBeep ==
    /\ pc = "cd_beep"
    /\ \E ok \in BOOLEAN :
         IF ok
         THEN /\ cd_trace' = cd_trace \o Tone(600, 150)
                               \o << CdEv("wait", "", 0, 0, 600) >>
              /\ IF i > 1
                 THEN /\ i' = i - 1
                      /\ pc' = "cd_beep"
                 ELSE /\ i' = 0
                      /\ pc' = "cd_start"
              /\ UNCHANGED << exc, stages >>
         ELSE /\ Raise("PortAudioError", stages)
              /\ UNCHANGED << cd_trace, i >>
    /\ UNCHANGED << run, duracion, is_recording, current_audio_processed,
                    streams, locals, written, status_events, result, escaped >>
    /\ UNCHANGED nonEngineVars

\* FASE 3: the recording status, then the 1000 Hz / 0.2 s tone.
CountdownStart ==
    /\ pc = "cd_start"
    /\ status_events' =
         Append(status_events, StatusCall("recording", "#FF3B30", "HABLA AHORA"))
    /\ \E ok \in BOOLEAN :
         IF ok
         THEN /\ cd_trace' = cd_trace
                   \o << CdEv("status", "recording", 0, 0, 0) >> \o Tone(1000, 200)
              /\ stages' = Ended("countdown", stages)
              /\ pc' = "grabar"
              /\ UNCHANGED exc
         ELSE /\ cd_trace' = Append(cd_trace, CdEv("status", "recording", 0, 0, 0))
              /\ Raise("PortAudioError", stages)
    /\ UNCHANGED << run, duracion, i, is_recording, current_audio_processed,
                    streams, locals, written, result, escaped >>
    /\ UNCHANGED nonEngineVars

\* ------------------------------------------------------------ grabar_audio
\* the pre-roll subtracted instead of added
total_samples_subtracts(d) ==
    IntTrunc((d - preroll_duration) * fs, TicksPerSecond)

\* total_samples = int((duracion + self.preroll_duration) * self.fs)
total_samples(d) ==
    IntTrunc((d + preroll_duration) * fs, TicksPerSecond)

\* is_recording is set, then sd.rec allocates total_samples frames and opens
\* the capture stream: a negative frame count raises ValueError, an
\* unavailable device PortAudioError.
GrabarStart ==
    /\ pc = "grabar"
    /\ is_recording' = TRUE
    /\ IF total_samples(duracion) < 0
       THEN /\ Raise("ValueError", Started("capture"))
            /\ UNCHANGED streams
       ELSE \E ok \in BOOLEAN :
              IF ok
              THEN /\ streams' = streams \cup {"rec"}
                   /\ stages' = Started("capture")
                   /\ pc' = "grabar_wait"
                   /\ UNCHANGED exc
              ELSE /\ Raise("PortAudioError", Started("capture"))
                   /\ UNCHANGED streams
    /\ UNCHANGED << run, duracion, i, current_audio_processed, locals, written,
                    status_events, cd_trace, result, escaped >>
    /\ UNCHANGED nonEngineVars

\* sd.wait blocks until the frames are recorded and closes the stream; then
\* is_recording is cleared and the flattened buffer returned.
GrabarWait ==
    /\ pc = "grabar_wait"
    /\ streams' = streams \ {"rec"}
    /\ is_recording' = FALSE
    /\ audio_raw' = [run |-> run, len |-> total_samples(duracion)]
    /\ stages' = Ended("capture", stages)
    /\ pc' = "procesar"
    /\ UNCHANGED << run, duracion, i, current_audio_processed, audio_procesado,
                    duracion_real, inicio_ms, trim_len, recognizer, texto,
                    audio_synth, written, status_events, cd_trace, exc, result,
                    escaped >>
    /\ UNCHANGED nonEngineVars

\* ------------------------------------------------------------ procesar_audio
\* librosa.effects.trim(y, top_db): the (start index, length) pairs the trim
\* may return for a buffer of n samples: nothing removed, the middle kept,
\* everything removed.
TrimOutcomes(n) ==
    { [start |-> 0, len |-> n],
      [start |-> (n \div 32) * 8, len |-> n \div 2],
      [start |-> 0, len |-> 0] }

\* a pre-emphasis that accepts the empty array (y[:1] in place of y[0])
PreEmphasisRaises_never(n) == FALSE

\* np.append(y[0], y[1:] - coef * y[:-1]): y[0] of an empty array raises
\* IndexError
PreEmphasisRaises(n) == n = 0

\* The status call, the high-pass filter (filtfilt raises ValueError unless
\* the input is longer than its padding), the trim, the pre-emphasis and the
\* normalisation; then proceso_completo stores the buffer in
\* self.current_audio_processed.
ProcesarAudio ==
    /\ pc = "procesar"
    /\ status_events' =
         Append(status_events, StatusCall("processing", "#34C759", "PROCESANDO..."))
    /\ IF audio_raw.len <= padlen
       THEN /\ Raise("ValueError", Started("conditioning"))
            /\ UNCHANGED << audio_procesado, duracion_real, inicio_ms, trim_len,
                            current_audio_processed >>
       ELSE \E t \in TrimOutcomes(audio_raw.len) :
              /\ trim_len' = t.len
              /\ IF PreEmphasisRaises(t.len)
                 THEN /\ Raise("IndexError", Started("conditioning"))
                      /\ UNCHANGED << audio_procesado, duracion_real, inicio_ms,
                                      current_audio_processed >>
                 ELSE /\ audio_procesado' = [run |-> run, len |-> t.len]
                      /\ duracion_real' = (t.len * TicksPerSecond) \div fs
                      /\ inicio_ms' = (t.start * 1000) \div fs
                      /\ current_audio_processed' = [run |-> run, len |-> t.len]
                      /\ stages' = Ended("conditioning", Started("conditioning"))
                      /\ pc' = "guardar_wav"
                      /\ UNCHANGED exc
    /\ UNCHANGED << run, duracion, i, is_recording, streams, audio_raw,
                    recognizer, texto, audio_synth, written, cd_trace, result,
                    escaped >>
    /\ UNCHANGED nonEngineVars

\* ------------------------------------------------------------ persistence
\* guardar_audio(audio_procesado, ruta_wav): sf.write writes the file or raises
GuardarWav ==
    /\ pc = "guardar_wav"
    /\ \E ok \in BOOLEAN :
         IF ok
         THEN /\ written' = written \cup {"wav"}
              /\ stages' = Ended("write_wav", Started("write_wav"))
              /\ pc' = "guardar_csv"
              /\ UNCHANGED exc
         ELSE /\ Raise("OSError", Started("write_wav"))
              /\ UNCHANGED written
    /\ UNCHANGED << run, duracion, i, is_recording, current_audio_processed,
                    streams, locals, status_events, cd_trace, result, escaped >>
    /\ UNCHANGED nonEngineVars

\* guardar_matriz_csv with its failure swallowed: the run goes on
GuardarCsv_swallows ==
    /\ pc = "guardar_csv"
    /\ \E ok \in BOOLEAN :
         /\ written' = IF ok THEN written \cup {"csv"} ELSE written
         /\ stages' = Append(Started("write_csv"),
                             StageEv("write_csv", IF ok THEN "end" ELSE "fail"))
         /\ pc' = "transcribir"
    /\ UNCHANGED << run, duracion, i, is_recording, current_audio_processed,
                    streams, locals, status_events, cd_trace, exc, result,
                    escaped >>
    /\ UNCHANGED nonEngineVars

\* guardar_matriz_csv(audio_procesado, ruta_csv)
GuardarCsv ==
    /\ pc = "guardar_csv"
    /\ \E ok \in BOOLEAN :
         IF ok
         THEN /\ written' = written \cup {"csv"}
              /\ stages' = Ended("write_csv", Started("write_csv"))
              /\ pc' = "transcribir"
              /\ UNCHANGED exc
         ELSE /\ Raise("OSError", Started("write_csv"))
              /\ UNCHANGED written
    /\ UNCHANGED << run, duracion, i, is_recording, current_audio_processed,
                    streams, locals, status_events, cd_trace, result, escaped >>
    /\ UNCHANGED nonEngineVars

\* ------------------------------------------------------------ transcribir_audio
\* What the recognizer does with the written file: returns a text, returns an
\* empty text, or raises (unreachable service, unintelligible audio).
RecognizerOutcomes == {"hola", "", "raise"}

\* transcribir_audio without its try / except: the recognizer's exception
\* reaches the caller
transcribir_audio_propagates(o) ==
    [raised |-> o = "raise", value |-> IF o = "raise" THEN NoText ELSE o]

\* transcribir_audio: the try / except Exception around the recognizer turns
\* every exception into the return value None; nothing is raised to the caller.
transcribir_audio(o) ==
    [raised |-> FALSE, value |-> IF o = "raise" THEN NoText ELSE o]

\* `if texto:` - None and the empty string are false
Truthy(t) == t # NoText /\ t # ""

\* step 7 of proceso_completo: the transcription, and the write of the text
\* file when a text came back.
Transcribir ==
    /\ pc = "transcribir"
    /\ \E o \in RecognizerOutcomes, ok \in BOOLEAN :
         LET r == transcribir_audio(o) IN
         /\ recognizer' = o
         /\ IF r.raised
            THEN /\ Raise("RequestError", Started("transcription"))
                 /\ UNCHANGED << texto, written >>
            ELSE /\ texto' = r.value
                 /\ IF Truthy(r.value)
                    THEN IF ok
                         THEN /\ written' = written \cup {"txt"}
                              /\ stages' = Ended("transcription", Started("transcription"))
                              /\ pc' = "sintetizar"
                              /\ UNCHANGED exc
                         ELSE /\ Raise("OSError", Started("transcription"))
                              /\ UNCHANGED written
                    ELSE /\ stages' = Ended("transcription", Started("transcription"))
                         /\ pc' = "sintetizar"
                         /\ UNCHANGED << exc, written >>
    /\ UNCHANGED << run, duracion, i, is_recording, current_audio_processed,
                    streams, audio_raw, audio_procesado, duracion_real,
                    inicio_ms, trim_len, audio_synth, status_events, cd_trace,
                    result, escaped >>
    /\ UNCHANGED nonEngineVars

\* ------------------------------------------------------------ sintetizar_voz
\* pitch shift (keeps the length, or raises), normalisation, dither, clip
SintetizarVoz ==
    /\ pc = "sintetizar"
    /\ \E ok \in BOOLEAN :
         IF ok
         THEN /\ audio_synth' = [run |-> run, len |-> audio_procesado.len]
              /\ stages' = Ended("synthesis", Started("synthesis"))
              /\ pc' = "guardar_synth"
              /\ UNCHANGED exc
         ELSE /\ Raise("ParameterError", Started("synthesis"))
              /\ UNCHANGED audio_synth
    /\ UNCHANGED << run, duracion, i, is_recording, current_audio_processed,
                    streams, audio_raw, audio_procesado, duracion_real,
                    inicio_ms, trim_len, recognizer, texto, written,
                    status_events, cd_trace, result, escaped >>
    /\ UNCHANGED nonEngineVars

\* guardar_audio(audio_synth, ruta_synth)
GuardarSynth ==
    /\ pc = "guardar_synth"
    /\ \E ok \in BOOLEAN :
         IF ok
         THEN /\ written' = written \cup {"synth"}
              /\ stages' = Ended("write_synth", Started("write_synth"))
              /\ pc' = "reproducir"
              /\ UNCHANGED exc
         ELSE /\ Raise("OSError", Started("write_synth"))
              /\ UNCHANGED written
    /\ UNCHANGED << run, duracion, i, is_recording, current_audio_processed,
                    streams, locals, status_events, cd_trace, result, escaped >>
    /\ UNCHANGED nonEngineVars

\* ------------------------------------------------------------ reproducir_audio
\* sd.play opens the playback stream or raises
ReproducirPlay ==
    /\ pc = "reproducir"
    /\ \E ok \in BOOLEAN :
         IF ok
         THEN /\ streams' = streams \cup {"play"}
              /\ stages' = Started("playback")
              /\ pc' = "reproducir_wait"
              /\ UNCHANGED exc
         ELSE /\ Raise("PortAudioError", Started("playback"))
              /\ UNCHANGED streams
    /\ UNCHANGED << run, duracion, i, is_recording, current_audio_processed,
                    locals, written, status_events, cd_trace, result, escaped >>
    /\ UNCHANGED nonEngineVars

\* sd.wait blocks until the synthesis has been played and closes the stream
ReproducirWait ==
    /\ pc = "reproducir_wait"
    /\ streams' = streams \ {"play"}
    /\ stages' = Ended("playback", stages)
    /\ pc' = "return"
    /\ UNCHANGED << run, duracion, i, is_recording, current_audio_processed,
                    locals, written, status_events, cd_trace, exc, result,
                    escaped >>
    /\ UNCHANGED nonEngineVars

\* ------------------------------------------------------------ the two exits
\* the return at the end of the try block
ReturnSuccess ==
    /\ pc = "return"
    /\ result' = << [ success |-> TRUE, wav |-> "wav", csv |-> "csv",
                      txt |-> "txt", synth |-> "synth",
                      audio_procesado |-> audio_procesado,
                      duracion |-> duracion_real, inicio_ms |-> inicio_ms ] >>
    /\ pc' = "idle"
    /\ UNCHANGED << run, duracion, i, is_recording, current_audio_processed,
                    streams, locals, written, status_events, cd_trace, stages,
                    exc, escaped >>
    /\ UNCHANGED nonEngineVars

\* an except clause that names one exception class only
Catches_OSErrorOnly(e) == e = "OSError"

\* `except Exception as e` catches every exception the stages raise
Catches(e) == e \in ExceptionClasses

\* the value the except clause returns
FailureResult(e) ==
    [ success |-> FALSE, error |-> e,
      audio_procesado |-> current_audio_processed ]

ExceptClause ==
    /\ pc = "except"
    /\ IF Catches(exc)
       THEN /\ result' = << FailureResult(exc) >>
            /\ UNCHANGED escaped
       ELSE /\ escaped' = TRUE
            /\ UNCHANGED result
    /\ pc' = "idle"
    /\ UNCHANGED << run, duracion, i, is_recording, current_audio_processed,
                    streams, locals, written, status_events, cd_trace, stages,
                    exc >>
    /\ UNCHANGED nonEngineVars

Next ==
    \/ \E d \in Durations : Call(d)
    \/ WarmupOpen
    \/ WarmupWait
    \/ CountdownVisual
    \/ CountdownBeep
    \/ CountdownStart
    \/ GrabarStart
    \/ GrabarWait
    \/ ProcesarAudio
    \/ GuardarWav
    \/ GuardarCsv
    \/ Transcribir
    \/ SintetizarVoz
    \/ GuardarSynth
    \/ ReproducirPlay
    \/ ReproducirWait
    \/ ReturnSuccess
    \/ ExceptClause

Spec == Init /\ [][Next]_vars

\* ------------------------------------------------------------ properties
\* the call of proceso_completo has ended (returned or raised)
Returned == pc = "idle" /\ run > 0

InStages(s, e) == \E k \in 1..Len(stages) : stages[k] = StageEv(s, e)

\* C1: proceso_completo never lets an exception escape; every value it
\* returns carries a success flag, and a run in which a stage raised returns
\* success = False together with the description of that exception.
C1_NeverRaises ==
    /\ ~escaped
    /\ Returned =>
         /\ Len(result) = 1
         /\ "success" \in DOMAIN result[1]
         /\ exc # "none" =>
              /\ result[1].success = FALSE
              /\ "error" \in DOMAIN result[1]
              /\ result[1].error = exc

\* a run has returned a failure for an exception raised after the text file
\* was written
C1_Witness ==
    /\ Returned
    /\ exc = "PortAudioError"
    /\ "txt" \in written
    /\ Len(result) = 1
    /\ ~result[1].success

\* C2: when the trim removes every sample, the run returns success = True
\* with real duration 0 and neither transcription nor synthesis is invoked.
C2_SilentCaptureSucceeds ==
    (Returned /\ trim_len = 0) =>
        /\ Len(result) = 1
        /\ result[1].success
        /\ result[1].duracion = 0
        /\ ~InStages("transcription", "start")
        /\ ~InStages("synthesis", "start")

\* C3: a transcription failure (the recognizer raising or returning no text)
\* does not abort the run: no transcript file is written, the transcription
\* stage ends normally, the run goes on to synthesis, the synthesis write and
\* playback, only those can still fail it, and without such a failure it
\* returns success = True.
TranscriptionFailed == recognizer \in {"raise", ""}

C3_TranscriptionFailureNotFatal ==
    TranscriptionFailed =>
        /\ "txt" \notin written
        /\ InStages("transcription", "end")
        /\ pc = "sintetizar" \/ InStages("synthesis", "start")
        /\ exc # "none" =>
             stages[Len(stages)].stage \in {"synthesis", "write_synth", "playback"}
        /\ (Returned /\ exc = "none") =>
             /\ Len(result) = 1
             /\ result[1].success
             /\ InStages("synthesis", "end")
             /\ "synth" \in written
             /\ InStages("playback", "end")

\* the recognizer raised and the run returned success
C3_Witness ==
    /\ Returned
    /\ recognizer = "raise"
    /\ Len(result) = 1
    /\ result[1].success

\* C4: the buffer a failed run returns is the one its own conditioning stage
\* produced, and no buffer when that stage did not complete in the run.
C4_FailureCarriesOwnBuffer ==
    (Returned /\ Len(result) = 1 /\ ~result[1].success) =>
        result[1].audio_procesado =
            IF InStages("conditioning", "end") THEN audio_procesado ELSE NoneBuf

\* C5: the stages of a run start and end in the fixed order, one after the
\* other, and a failed stage is the last stage of its run.
StageOrder ==
    << "warmup", "countdown", "capture", "conditioning", "write_wav",
       "write_csv", "transcription", "synthesis", "write_synth", "playback" >>

C5_StagesInOrder ==
    /\ Len(stages) <= 2 * Len(StageOrder)
    /\ \A k \in 1..Len(stages) :
         /\ stages[k].stage = StageOrder[(k + 1) \div 2]
         /\ k % 2 = 1 => stages[k].ev = "start"
         /\ k % 2 = 0 => stages[k].ev \in {"end", "fail"}
         /\ stages[k].ev = "fail" => k = Len(stages)
    /\ (stages # <<>> /\ stages[Len(stages)].ev = "fail") =>
         pc \in {"except", "idle"}
    /\ (Returned /\ exc = "none") => Len(stages) = 2 * Len(StageOrder)

\* a run in which the write of the sample dump failed has returned
C5_Witness ==
    /\ Returned
    /\ stages # <<>>
    /\ stages[Len(stages)] = StageEv("write_csv", "fail")

\* C6 (as stated): once cuenta_regresiva has been started, control leaves it
\* only after the whole sequence: three preparing events 3, 2, 1, three
\* 600 Hz tones each played to its end before the following wait, one
\* recording event, one 1000 Hz / 0.2 s tone played to its end.
FullCountdown ==
    << CdEv("status", "preparing", 3, 0, 0), CdEv("wait", "", 0, 0, 800),
       CdEv("status", "preparing", 2, 0, 0), CdEv("wait", "", 0, 0, 800),
       CdEv("status", "preparing", 1, 0, 0), CdEv("wait", "", 0, 0, 800),
       CdEv("play", "", 0, 600, 150), CdEv("played", "", 0, 600, 150),
       CdEv("wait", "", 0, 0, 600),
       CdEv("play", "", 0, 600, 150), CdEv("played", "", 0, 600, 150),
       CdEv("wait", "", 0, 0, 600),
       CdEv("play", "", 0, 600, 150), CdEv("played", "", 0, 600, 150),
       CdEv("wait", "", 0, 0, 600),
       CdEv("status", "recording", 0, 0, 0),
       CdEv("play", "", 0, 1000, 200), CdEv("played", "", 0, 1000, 200) >>

InCountdown == pc \in {"cd_visual", "cd_beep", "cd_start"}

C6_AlwaysCompletes ==
    (InStages("countdown", "start") /\ ~InCountdown) => cd_trace = FullCountdown

IsPrefix(a, b) ==
    /\ Len(a) <= Len(b)
    /\ \A k \in 1..Len(a) : a[k] = b[k]

\* C6 (amended): the events of cuenta_regresiva are always an initial part of
\* that sequence, so no recording event precedes a preparing event and every
\* tone is played to its end before the next wait; the sequence is complete
\* whenever cuenta_regresiva returns; it is cut short only by sd.play raising
\* for a tone, after the three preparing events.
C6_CompletesUnlessToneFails ==
    /\ IsPrefix(cd_trace, FullCountdown)
    /\ InStages("countdown", "end") => cd_trace = FullCountdown
    /\ InStages("countdown", "fail") =>
         /\ exc = "PortAudioError"
         /\ Len(cd_trace) >= 2 * CountdownFrom
         /\ cd_trace # FullCountdown

\* cuenta_regresiva has returned after its whole sequence
C6_Witness ==
    /\ InStages("countdown", "end")
    /\ cd_trace = FullCountdown
    /\ pc = "grabar"

\* C7: once proceso_completo has returned, no capture or playback stream is
\* held and is_recording is False.
C7_ReleasedOnReturn ==
    Returned => (streams = {} /\ is_recording = FALSE)

C9_SynthesisInputNonEmpty ==
    /\ (pc = "sintetizar" \/ InStages("synthesis", "start")) =>
         /\ audio_procesado # NoneBuf
         /\ audio_procesado.len > 0
    /\ trim_len = 0 =>
         /\ pc \in {"except", "idle"}
         /\ ~InStages("synthesis", "start")

\* a run whose trim produced an empty buffer has returned
C9_Witness ==
    /\ Returned
    /\ trim_len = 0
    /\ ~InStages("synthesis", "start")

\* C10 (as stated): no two consecutive status events of a run carry the same
\* phase.
Phases == {"preparing", "recording", "processing", "ready"}

C10_NoRepeatedPhase ==
    /\ \A k \in 1..Len(status_events) : status_events[k].status \in Phases
    /\ \A k \in 1..(Len(status_events) - 1) :
         status_events[k].status # status_events[k + 1].status

PhaseRank(p) ==
    CASE p = "preparing" -> 1
      [] p = "recording" -> 2
      [] p = "processing" -> 3
      [] OTHER -> 4

\* C10 (amended): the phases of a run's status events are drawn from
\* {preparing, recording, processing, ready}; no two consecutive status
\* events are the same event; two consecutive events carry the same phase
\* only for the preparing ticks of the countdown, which differ in their
\* remaining count; a phase that has been left does not come back.
C10_NoRepeatedEvent ==
    /\ \A k \in 1..Len(status_events) : status_events[k].status \in Phases
    /\ \A k \in 1..(Len(status_events) - 1) :
         /\ status_events[k] # status_events[k + 1]
         /\ PhaseRank(status_events[k].status)
              <= PhaseRank(status_events[k + 1].status)
         /\ status_events[k].status = status_events[k + 1].status =>
              status_events[k].status = "preparing"

\* the three preparing events, the recording event and the processing event
\* have been emitted
C10_Witness ==
    /\ Len(status_events) = CountdownFrom + 2
    /\ status_events[1].status = "preparing"
    /\ status_events[2].status = "preparing"
    /\ status_events[CountdownFrom + 2].status = "processing"

\* ------------------------------------------------------------ procesar_audio, steps 4 and 5
\* Sample values are integers, in units of an arbitrary amplitude step; the
\* pre-emphasised samples are counted in hundredths of that unit and the
\* normalised samples are fractions num / den, so that 0.97 and 0.95 are
\* exact.
MaxLen == 3
MaxAmp == 2

pre_emphasis_coef == 97
norm_target == 95

SeqsUpTo(S, n) == UNION { [1..m -> S] : m \in 1..n }

\* the trimmed signals the chain is run on (an empty one raises, see
\* PreEmphasisRaises)
Signals == SeqsUpTo(-MaxAmp..MaxAmp, MaxLen)

Abs(x) == IF x < 0 THEN -x ELSE x

MaxOf(S) == CHOOSE m \in S : \A x \in S : x <= m

\* np.append(y[0], y[1:] - self.pre_emphasis_coef * y[:-1]), in hundredths
pre_emphasis(s) ==
    [k \in 1..Len(s) |->
        IF k = 1 THEN 100 * s[1] ELSE 100 * s[k] - pre_emphasis_coef * s[k - 1]]

\* the maximum of the samples, sign included
peak_signed(s) == MaxOf({ s[k] : k \in 1..Len(s) })

\* np.max(np.abs(y_preemph))
peak(s) == MaxOf({ Abs(s[k]) : k \in 1..Len(s) })

\* if peak > 0: y_preemph / peak * 0.95; otherwise y_preemph as it is
normalize(s) ==
    IF peak(s) > 0
    THEN [k \in 1..Len(s) |-> [num |-> s[k] * norm_target, den |-> peak(s) * 100]]
    ELSE [k \in 1..Len(s) |-> [num |-> s[k], den |-> 1]]

DspInit ==
    /\ y \in Signals
    /\ y_preemph = <<>>
    /\ y_norm = <<>>
    /\ dsp_pc = "preemph"

PreEmphasis ==
    /\ dsp_pc = "preemph"
    /\ y_preemph' = pre_emphasis(y)
    /\ dsp_pc' = "normalize"
    /\ UNCHANGED << y, y_norm, engineVars, uiVars >>

Normalize ==
    /\ dsp_pc = "normalize"
    /\ y_norm' = normalize(y_preemph)
    /\ dsp_pc' = "done"
    /\ UNCHANGED << y, y_preemph, engineVars, uiVars >>

NextDsp ==
    \/ PreEmphasis
    \/ Normalize

InitDsp == EngineInit /\ DspInit /\ UiInit

SpecDsp == InitDsp /\ [][NextDsp]_vars

\* C11: after the normalisation step, a buffer whose peak was greater than 0
\* has peak absolute amplitude exactly 0.95 (no sample above it), and an
\* all-zero buffer is returned unchanged through the no-scaling branch: no
\* denominator is ever 0.
C11_PeakIsTarget ==
    dsp_pc = "done" =>
        /\ Len(y_norm) = Len(y_preemph)
        /\ \A k \in 1..Len(y_norm) : y_norm[k].den > 0
        /\ (\E k \in 1..Len(y_preemph) : y_preemph[k] # 0) =>
             /\ \A k \in 1..Len(y_norm) :
                  Abs(y_norm[k].num) * 100 <= 95 * y_norm[k].den
             /\ \E k \in 1..Len(y_norm) :
                  Abs(y_norm[k].num) * 100 = 95 * y_norm[k].den
        /\ (\A k \in 1..Len(y_preemph) : y_preemph[k] = 0) =>
             \A k \in 1..Len(y_norm) : y_norm[k] = [num |-> 0, den |-> 1]

\* a buffer whose largest sample in magnitude is negative has been normalised
C11_Witness ==
    /\ dsp_pc = "done"
    /\ Len(y_preemph) = MaxLen
    /\ \E k \in 1..Len(y_preemph) :
         /\ y_preemph[k] < 0
         /\ \A j \in 1..Len(y_preemph) : Abs(y_preemph[j]) < -y_preemph[k] \/ j = k
         /\ y_norm[k].num * 100 = -95 * y_norm[k].den

\* ------------------------------------------------------------ SintetizadorApp (src/src/main.py)
\* what the two entries hold when the button is clicked
Nombres == {"grabacion_final", "  ", ""}
DuracionTexts == {"3", "", "abc"}

\* str.strip()
Strip(t) == IF t = "  " THEN "" ELSE t

\* float(self.entry_duracion.get() or 3): ok, or ValueError
ParseDuracion(t) ==
    CASE t = "" -> [ok |-> TRUE, value |-> 3]
      [] t = "3" -> [ok |-> TRUE, value |-> 3]
      [] OTHER -> [ok |-> FALSE, value |-> 0]

\* a configure that changes the text and leaves the button enabled
DisabledButton_textOnly(b) == [b EXCEPT !.text = "PREPARANDO..."]

\* self.btn_grabar.configure(state="disabled", text="PREPARANDO...")
DisabledButton(b) == [b EXCEPT !.state = "disabled", !.text = "PREPARANDO..."]

\* a restore that leaves the colour of the last status
RestoredButton_keepsColor(b) ==
    [b EXCEPT !.state = "normal", !.text = "GRABAR Y SINTETIZAR"]

\* configure(state="normal", text="GRABAR Y SINTETIZAR", fg_color="#007AFF")
RestoredButton(b) ==
    [state |-> "normal", text |-> "GRABAR Y SINTETIZAR", fg_color |-> "#007AFF"]

\* A click on the record button, handled on the UI thread.  A disabled
\* button does not call its command.  Otherwise iniciar_proceso validates
\* the two entries, disables the button and starts the worker thread.
Click(nombre, texto_duracion) ==
    /\ clicks < MaxClicks
    /\ clicks' = clicks + 1
    /\ IF btn.state = "disabled"
       THEN /\ last_click' = "ignored"
            /\ UNCHANGED << btn, after_queue, wpc, nworkers >>
       ELSE IF Strip(nombre) = ""
       THEN /\ last_click' = "invalid_name"
            /\ after_queue' = Append(after_queue, Callback("log", 0, "", ""))
            /\ UNCHANGED << btn, wpc, nworkers >>
       ELSE IF ~ParseDuracion(texto_duracion).ok
       THEN /\ last_click' = "invalid_duration"
            /\ after_queue' = Append(after_queue, Callback("log", 0, "", ""))
            /\ UNCHANGED << btn, wpc, nworkers >>
       ELSE /\ last_click' = "started"
            /\ btn' = DisabledButton(btn)
            /\ nworkers' = nworkers + 1
            /\ wpc' = [wpc EXCEPT ![nworkers + 1] = "running"]
            /\ UNCHANGED after_queue
    /\ UNCHANGED << wk, applied, engineVars, dspVars >>

\* the status calls of one run of proceso_completo, in order
RunStatuses ==
    << CdPreparando(3), CdPreparando(2), CdPreparando(1),
       StatusCall("recording", "#FF3B30", "HABLA AHORA"),
       StatusCall("processing", "#34C759", "PROCESANDO...") >>

\* how many of them a run has made when it fails: in the warm-up, in a tone
\* of the countdown, in the start tone or the capture, later
StatusCountsAtFailure == {0, CountdownFrom, CountdownFrom + 1, CountdownFrom + 2}

\* The worker, inside proceso_completo: the engine calls the status callback
\* actualizar_estado_boton, which queues the button update.
WorkerStatus(w) ==
    /\ wpc[w] = "running"
    /\ wk[w] < Len(RunStatuses)
    /\ wk' = [wk EXCEPT ![w] = wk[w] + 1]
    /\ after_queue' =
         Append(after_queue,
                Callback("status", w, RunStatuses[wk[w] + 1].color,
                         RunStatuses[wk[w] + 1].text))
    /\ UNCHANGED << btn, wpc, nworkers, clicks, last_click, applied,
                    engineVars, dspVars >>

\* proceso_completo ends: with a success result (the redraw of the graphs is
\* queued), with a failure result, or the worker's try block raises (the
\* except clause queues a log line).
WorkerReturn(w) ==
    /\ wpc[w] = "running"
    /\ \E outcome \in {"success", "failure", "exception"} :
         CASE outcome = "success" ->
                /\ wk[w] = Len(RunStatuses)
                /\ after_queue' = Append(after_queue, Callback("graficas", w, "", ""))
           [] outcome = "failure" ->
                /\ wk[w] \in StatusCountsAtFailure
                /\ UNCHANGED after_queue
           [] outcome = "exception" ->
                /\ wk[w] \in StatusCountsAtFailure
                /\ after_queue' = Append(after_queue, Callback("log", w, "", ""))
    /\ wpc' = [wpc EXCEPT ![w] = "finally"]
    /\ UNCHANGED << btn, wk, nworkers, clicks, last_click, applied,
                    engineVars, dspVars >>

\* the finally block queues the restore of the button; the thread ends
WorkerFinally(w) ==
    /\ wpc[w] = "finally"
    /\ after_queue' = Append(after_queue, Callback("restore", w, "", ""))
    /\ wpc' = [wpc EXCEPT ![w] = "done"]
    /\ UNCHANGED << btn, wk, nworkers, clicks, last_click, applied,
                    engineVars, dspVars >>

\* what a queued callback does to the button: _update of
\* actualizar_estado_boton sets the colour and the text that are given, the
\* restore configures the button, the others leave it alone
ApplyCallback(cb, b) ==
    CASE cb.kind = "status" ->
           [b EXCEPT !.fg_color = IF cb.color # "" THEN cb.color ELSE @,
                     !.text = IF cb.text # "" THEN cb.text ELSE @]
      [] cb.kind = "restore" -> RestoredButton(b)
      [] OTHER -> b

\* The event loop runs the oldest queued callback.
UIApply ==
    /\ after_queue # <<>>
    /\ LET cb == Head(after_queue) IN
         /\ btn' = ApplyCallback(cb, btn)
         /\ applied' =
              IF cb.kind \in {"status", "restore"}
              THEN Append(applied,
                          [kind |-> cb.kind, w |-> cb.w, btn |-> ApplyCallback(cb, btn)])
              ELSE applied
    /\ after_queue' = Tail(after_queue)
    /\ UNCHANGED << wpc, wk, nworkers, clicks, last_click, engineVars, dspVars >>

WorkerStep(w) == WorkerStatus(w) \/ WorkerReturn(w) \/ WorkerFinally(w)

NextUI ==
    \/ \E nombre \in Nombres, texto_duracion \in DuracionTexts :
         Click(nombre, texto_duracion)
    \/ \E w \in Workers : WorkerStatus(w)
    \/ \E w \in Workers : WorkerReturn(w)
    \/ \E w \in Workers : WorkerFinally(w)
    \/ UIApply

InitUI == EngineInit /\ DspOff /\ UiInit

SpecUI == InitUI /\ [][NextUI]_vars

\* the event loop keeps running queued callbacks; a started worker thread
\* keeps running (every wait of proceso_completo is timed)
SpecUIFair ==
    /\ SpecUI
    /\ WF_vars(UIApply)
    /\ \A w \in Workers : WF_vars(WorkerStep(w))

\* C12: at most one worker thread executes proceso_completo at any time and
\* the record button is disabled while one does; the click that starts a
\* worker disables the button in the same handler; the button becomes
\* enabled again only when the restore queued by the last started worker's
\* finally block is run; a click rejected by the validation starts no worker
\* and leaves the button as it was, enabled.
Running == { w \in Workers : wpc[w] = "running" }

RestoreApplied(w) ==
    \E j \in 1..Len(applied) : applied[j].kind = "restore" /\ applied[j].w = w

C12_Inv ==
    /\ Cardinality(Running) <= 1
    /\ Running # {} => btn.state = "disabled"
    /\ btn.state = "normal" =>
         \A w \in Workers :
            /\ wpc[w] \in {"unborn", "done"}
            /\ wpc[w] = "done" => RestoreApplied(w)

C12_Step ==
    /\ (clicks' # clicks /\ last_click' \in {"invalid_name", "invalid_duration"}) =>
         /\ btn.state = "normal"
         /\ btn' = btn
         /\ wpc' = wpc
         /\ nworkers' = nworkers
    /\ nworkers' # nworkers =>
         /\ btn.state = "normal"
         /\ btn'.state = "disabled"
         /\ wpc'[nworkers'] = "running"
    /\ (btn.state = "disabled" /\ btn'.state = "normal") =>
         /\ after_queue # <<>>
         /\ Head(after_queue) = Callback("restore", nworkers, "", "")
         /\ wpc[nworkers] = "done"

C12_OneWorkerAtATime == [](C12_Inv) /\ [][C12_Step]_vars

\* a second worker runs after the first one's restore, and a click made
\* meanwhile was ignored
C12_Witness ==
    /\ nworkers = 2
    /\ wpc[1] = "done"
    /\ wpc[2] = "running"
    /\ wk[2] = 2
    /\ last_click = "ignored"

\* C13: every started run, whatever its outcome, is followed by the restore
\* of the record button to enabled with its original text and colour, and
\* no button update queued by that run's status callback is applied after
\* that restore.
ButtonRestoredFor(w) ==
    \E j \in 1..Len(applied) :
        /\ applied[j].kind = "restore"
        /\ applied[j].w = w
        /\ applied[j].btn = OriginalButton

C13_NoLateStatus ==
    /\ \A j \in 1..Len(applied) :
         applied[j].kind = "restore" => applied[j].btn = OriginalButton
    /\ \A a \in 1..Len(applied), b \in 1..Len(applied) :
         (a < b /\ applied[a].kind = "restore" /\ applied[b].kind = "status")
            => applied[b].w # applied[a].w

C13_ButtonRestored ==
    /\ [](C13_NoLateStatus)
    /\ \A w \in Workers : (wpc[w] # "unborn") ~> ButtonRestoredFor(w)

\* the button has been restored after the five status updates of a
\* successful run were applied
C13_Witness ==
    /\ Len(applied) = Len(RunStatuses) + 1
    /\ applied[Len(RunStatuses)].kind = "status"
    /\ applied[Len(RunStatuses)].btn.fg_color = "#34C759"
    /\ applied[Len(RunStatuses) + 1].kind = "restore"
    /\ btn = OriginalButton
    /\ wpc[1] = "done"

====
